---- MODULE Spec2Model ----
(***************************************************************************)
(* Reverse-and-add ("Lychrel") exploration: lychrel_tree.py builds the     *)
(* shared graph of all chains of a seed range, lychrel_graph.py counts the *)
(* iterations each seed needs.                                             *)
(*                                                                         *)
(* Python's int is unbounded and the chain of 89 already passes 2^31, so   *)
(* a chain value is modelled as its decimal limbs, least significant       *)
(* first, with no most significant zero limb (zero is the empty sequence). *)
(* The integers that the range bounds (seeds, loop counters, levels,       *)
(* iteration counts) are ordinary integers.                                *)
(***************************************************************************)
EXTENDS Integers, Sequences, FiniteSets, TLC

\* ---------------------------------------------------------------- bounds
MaxStart == 12
MaxSpan == 5
MaxIter == 3
MaxSeed == 200
MaxFnIter == 30

VARIABLES
    start, end, max_iter,                     \* the arguments of both scripts
    tree_pc, tree_n,                          \* build_lychrel_graph: position, loop variable n
    adjacency, level_of, lychrel_seeds,       \* build_lychrel_graph: its three accumulators
    series_pc, series_n,                      \* lychrel_graph_save: position, loop variable n
    x_vals, y_vals, no_palindrome_nums,       \* lychrel_graph_save: its three lists
    fn_n, fn_max_iter, fn_called,             \* one call of the pure functions: arguments, calls made
    fn_chain, fn_iters, fn_prims              \* ... and what they returned

vars == <<start, end, max_iter, tree_pc, tree_n, adjacency, level_of, lychrel_seeds,
          series_pc, series_n, x_vals, y_vals, no_palindrome_nums,
          fn_n, fn_max_iter, fn_called, fn_chain, fn_iters, fn_prims>>

\* ------------------------------------------------- Python int and str
Reverse(s) == [i \in 1..Len(s) |-> s[Len(s) + 1 - i]]

Min2(a, b) == IF a <= b THEN a ELSE b

\* The int object of a small non-negative number (what range() yields).
RECURSIVE PyInt(_)
PyInt(k) == IF k = 0 THEN <<>> ELSE <<k % 10>> \o PyInt(k \div 10)

RECURSIVE int_add_carry(_, _, _)
int_add_carry(a, b, c) ==
    IF a = <<>> /\ b = <<>>
    THEN IF c = 0 THEN <<>> ELSE <<c>>
    ELSE LET x == IF a = <<>> THEN 0 ELSE Head(a)
             y == IF b = <<>> THEN 0 ELSE Head(b)
             s == x + y + c
         IN  <<s % 10>> \o int_add_carry(IF a = <<>> THEN <<>> ELSE Tail(a),
                                         IF b = <<>> THEN <<>> ELSE Tail(b),
                                         s \div 10)

\* A fixed-width sum: the limbs above the tenth are lost.
RECURSIVE drop_high_zeros(_)
drop_high_zeros(v) ==
    IF v # <<>> /\ v[Len(v)] = 0 THEN drop_high_zeros(SubSeq(v, 1, Len(v) - 1)) ELSE v

int_add_fixed_width(a, b) ==
    LET s == int_add_carry(a, b, 0)
    IN  drop_high_zeros(SubSeq(s, 1, Min2(Len(s), 10)))

\* a + b
int_add(a, b) == int_add_carry(a, b, 0)

\* num % 10, num // 10, rev * 10 + d, num > 0
int_mod10(num) == IF num = <<>> THEN 0 ELSE Head(num)
int_floordiv10(num) == IF num = <<>> THEN <<>> ELSE Tail(num)
int_mul10_add(rev, d) == IF rev = <<>> /\ d = 0 THEN <<>> ELSE <<d>> \o rev
int_positive(num) == num # <<>>

\* str(n): the decimal digits, most significant first; "0" for zero.
py_str(n) == IF n = <<>> THEN <<0>> ELSE Reverse(n)

\* s[::-1]
slice_reversed(s) == Reverse(s)

RECURSIVE strip_leading_zeros(_)
strip_leading_zeros(s) ==
    IF s # <<>> /\ Head(s) = 0 THEN strip_leading_zeros(Tail(s)) ELSE s

\* An int() that keeps the leading zeros of its text as limbs.
py_int_keep_zeros(s) == Reverse(s)

\* int(s): leading zeros carry no value.
py_int(s) == Reverse(strip_leading_zeros(s))

\* ------------------------------------------------------ lychrel_tree.py
is_palindrome(n) == py_str(n) = slice_reversed(py_str(n))

reverse_num(n) == py_int(slice_reversed(py_str(n)))

\* The for loop of lychrel_chain with k iterations left.
RECURSIVE chain_loop(_, _, _)
chain_loop(chain, current, k) ==
    IF k <= 0
    THEN <<chain, FALSE>>
    ELSE LET r == reverse_num(current)
             next_val == int_add(current, r)
             chain2 == Append(chain, next_val)
         IN  IF is_palindrome(next_val)
             THEN <<chain2, TRUE>>
             ELSE chain_loop(chain2, next_val, k - 1)

\* A chain that runs one iteration more than asked.
lychrel_chain_one_more(n, max_it) == chain_loop(<<n>>, n, max_it + 1)

\* lychrel_chain(n, max_iter) -> (chain, found_pal)
lychrel_chain(n, max_it) == chain_loop(<<n>>, n, max_it)

\* add_edge with its arguments swapped.
add_edge_swapped(adj, u, v) ==
    IF v \notin DOMAIN adj THEN adj @@ (v :> {u}) ELSE [adj EXCEPT ![v] = @ \cup {u}]

add_edge(adj, u, v) ==
    IF u \notin DOMAIN adj THEN adj @@ (u :> {v}) ELSE [adj EXCEPT ![u] = @ \cup {v}]

\* A level that keeps the first index seen.
set_level_first_wins(lvl, node, i) ==
    IF node \notin DOMAIN lvl THEN lvl @@ (node :> i) ELSE lvl

\* A level that keeps the deepest index seen.
set_level_max(lvl, node, i) ==
    IF node \notin DOMAIN lvl
    THEN lvl @@ (node :> i)
    ELSE [lvl EXCEPT ![node] = IF @ >= i THEN @ ELSE i]

\* if node not in level_of: level_of[node] = i  else: min(level_of[node], i)
set_level(lvl, node, i) ==
    IF node \notin DOMAIN lvl
    THEN lvl @@ (node :> i)
    ELSE [lvl EXCEPT ![node] = Min2(@, i)]

\* for i, node in enumerate(chain), from index i on; chain[i] is chain[i + 1] here.
RECURSIVE enumerate_loop(_, _, _, _)
enumerate_loop(adj, lvl, chain, i) ==
    IF i >= Len(chain)
    THEN <<adj, lvl>>
    ELSE LET node == chain[i + 1]
             lvl1 == set_level(lvl, node, i)
         IN  IF i < Len(chain) - 1
             THEN LET nxt == chain[i + 2]
                  IN  enumerate_loop(add_edge(adj, node, nxt),
                                     set_level(lvl1, nxt, i + 1), chain, i + 1)
             ELSE enumerate_loop(adj, lvl1, chain, i + 1)

\* One pass of the loop over the seeds; G = <<adjacency, level_of, lychrel_seeds>>.
seed_pass(G, n, max_it) ==
    LET res == lychrel_chain(PyInt(n), max_it)
        seeds == IF ~res[2] THEN G[3] \cup {n} ELSE G[3]
        al == enumerate_loop(G[1], G[2], res[1], 0)
    IN  <<al[1], al[2], seeds>>

EmptyMap == [x \in {} |-> 0]

RECURSIVE seeds_loop(_, _, _, _)
seeds_loop(G, n, e, max_it) ==
    IF n > e THEN G ELSE seeds_loop(seed_pass(G, n, max_it), n + 1, e, max_it)

\* build_lychrel_graph(start, end, max_iter) -> (adjacency, level_of, lychrel_seeds)
build_lychrel_graph(s, e, max_it) == seeds_loop(<<EmptyMap, EmptyMap, {}>>, s, e, max_it)

\* ----------------------------------------------------- lychrel_graph.py
RECURSIVE reverse_loop(_, _)
reverse_loop(rev, num) ==
    IF int_positive(num)
    THEN reverse_loop(int_mul10_add(rev, int_mod10(num)), int_floordiv10(num))
    ELSE rev

reverse_int(num) == reverse_loop(<<>>, num)

\* is_palindrome of lychrel_graph.py; a value here is never negative.
is_palindrome_int(num) == reverse_loop(<<>>, num) = num

RECURSIVE iterations_loop(_, _, _)
iterations_loop(current, i, max_it) ==
    IF i > max_it
    THEN max_it
    ELSE LET c == int_add(current, reverse_int(current))
         IN  IF is_palindrome_int(c) THEN i ELSE iterations_loop(c, i + 1, max_it)

palindrome_iterations(n, max_it) == iterations_loop(n, 1, max_it)

\* --------------------------------------------------------------- actions
FnIdle ==
    /\ fn_n = 0 /\ fn_max_iter = 0 /\ fn_called = {}
    /\ fn_chain = <<<<>>, FALSE>> /\ fn_iters = 0
    /\ fn_prims = [rev_int |-> <<>>, rev_num |-> <<>>, pal_int |-> FALSE, pal_str |-> FALSE]

ScriptsIdle ==
    /\ start = 0 /\ end = 0 /\ max_iter = 0
    /\ tree_pc = "idle" /\ tree_n = 0
    /\ adjacency = EmptyMap /\ level_of = EmptyMap /\ lychrel_seeds = {}
    /\ series_pc = "idle" /\ series_n = 0
    /\ x_vals = <<>> /\ y_vals = <<>> /\ no_palindrome_nums = <<>>

\* One of the two scripts is run, with any integer arguments: neither validates them.
InitTree ==
    /\ tree_pc = "loop" /\ tree_n = start
    /\ adjacency = EmptyMap /\ level_of = EmptyMap /\ lychrel_seeds = {}
    /\ series_pc = "idle" /\ series_n = 0
    /\ x_vals = <<>> /\ y_vals = <<>> /\ no_palindrome_nums = <<>>

InitSeries ==
    /\ tree_pc = "idle" /\ tree_n = 0
    /\ adjacency = EmptyMap /\ level_of = EmptyMap /\ lychrel_seeds = {}
    /\ series_pc = "loop" /\ series_n = start
    /\ x_vals = <<>> /\ y_vals = <<>> /\ no_palindrome_nums = <<>>

Init ==
    /\ start \in 0..MaxStart
    /\ end \in (start - 1)..(start + MaxSpan)
    /\ max_iter \in (0 - 1)..MaxIter
    /\ InitTree \/ InitSeries
    /\ FnIdle

TreeVars == <<tree_pc, tree_n, adjacency, level_of, lychrel_seeds>>
SeriesVars == <<series_pc, series_n, x_vals, y_vals, no_palindrome_nums>>
FnVars == <<fn_n, fn_max_iter, fn_called, fn_chain, fn_iters, fn_prims>>

\* build_lychrel_graph: one pass of "for n in range(start, end + 1)".
TreeIter ==
    /\ tree_pc = "loop" /\ tree_n <= end
    /\ LET G == seed_pass(<<adjacency, level_of, lychrel_seeds>>, tree_n, max_iter)
       IN  /\ adjacency' = G[1]
           /\ level_of' = G[2]
           /\ lychrel_seeds' = G[3]
    /\ tree_n' = tree_n + 1
    /\ UNCHANGED <<start, end, max_iter, tree_pc, SeriesVars, FnVars>>

\* build_lychrel_graph: the range is exhausted, return the accumulators.
TreeReturn ==
    /\ tree_pc = "loop" /\ tree_n > end
    /\ tree_pc' = "returned"
    /\ UNCHANGED <<start, end, max_iter, tree_n, adjacency, level_of, lychrel_seeds,
                   SeriesVars, FnVars>>

\* lychrel_graph_save: one pass of step 1's loop.
SeriesIter ==
    /\ series_pc = "loop" /\ series_n <= end
    /\ LET iters_needed == palindrome_iterations(PyInt(series_n), max_iter)
       IN  /\ x_vals' = Append(x_vals, series_n)
           /\ y_vals' = Append(y_vals, iters_needed)
           /\ no_palindrome_nums' =
                 IF iters_needed = max_iter
                 THEN Append(no_palindrome_nums, series_n)
                 ELSE no_palindrome_nums
    /\ series_n' = series_n + 1
    /\ UNCHANGED <<start, end, max_iter, series_pc, TreeVars, FnVars>>

\* lychrel_graph_save: the loop is over; the lists go to the plot and the report.
SeriesDone ==
    /\ series_pc = "loop" /\ series_n > end
    /\ series_pc' = "done"
    /\ UNCHANGED <<start, end, max_iter, series_n, x_vals, y_vals, no_palindrome_nums,
                   TreeVars, FnVars>>

Next == TreeIter \/ TreeReturn \/ SeriesIter \/ SeriesDone

Spec == Init /\ [][Next]_vars

\* ------------------------------------------- the pure functions, called once
InitFn ==
    /\ ScriptsIdle
    /\ fn_n \in 0..MaxSeed
    /\ fn_max_iter \in 1..MaxFnIter
    /\ fn_called = {}
    /\ fn_chain = <<<<>>, FALSE>> /\ fn_iters = 0
    /\ fn_prims = [rev_int |-> <<>>, rev_num |-> <<>>, pal_int |-> FALSE, pal_str |-> FALSE]

ScriptVars == <<start, end, max_iter, TreeVars, SeriesVars>>

CallLychrelChain ==
    /\ "lychrel_chain" \notin fn_called
    /\ fn_chain' = lychrel_chain(PyInt(fn_n), fn_max_iter)
    /\ fn_called' = fn_called \cup {"lychrel_chain"}
    /\ UNCHANGED <<fn_n, fn_max_iter, fn_iters, fn_prims, ScriptVars>>

CallPalindromeIterations ==
    /\ "palindrome_iterations" \notin fn_called
    /\ fn_iters' = palindrome_iterations(PyInt(fn_n), fn_max_iter)
    /\ fn_called' = fn_called \cup {"palindrome_iterations"}
    /\ UNCHANGED <<fn_n, fn_max_iter, fn_chain, fn_prims, ScriptVars>>

CallPrimitives ==
    /\ "primitives" \notin fn_called
    /\ fn_prims' = [rev_int |-> reverse_int(PyInt(fn_n)),
                    rev_num |-> reverse_num(PyInt(fn_n)),
                    pal_int |-> is_palindrome_int(PyInt(fn_n)),
                    pal_str |-> is_palindrome(PyInt(fn_n))]
    /\ fn_called' = fn_called \cup {"primitives"}
    /\ UNCHANGED <<fn_n, fn_max_iter, fn_chain, fn_iters, ScriptVars>>

NextFn == CallLychrelChain \/ CallPalindromeIterations \/ CallPrimitives

SpecFn == InitFn /\ [][NextFn]_vars

\* =================================================================== claims

\* C1: for every seed >= 0 and bound >= 1 lychrel_chain returns a chain of 2 to
\* bound + 1 values that starts at the seed, each value being its predecessor plus
\* the predecessor's reversal; when it reports a palindrome, the last value is one and
\* no value at an index 1..k-1 is (index 0, the seed, is never tested).
C1_ChainContract ==
    "lychrel_chain" \in fn_called =>
        LET chain == fn_chain[1]
            found_pal == fn_chain[2]
            k == Len(chain) - 1
        IN  /\ 2 <= Len(chain) /\ Len(chain) <= fn_max_iter + 1
            /\ chain[1] = PyInt(fn_n)
            /\ \A i \in 1..k : chain[i + 1] = int_add(chain[i], reverse_num(chain[i]))
            /\ found_pal =>
                  /\ k >= 1
                  /\ is_palindrome(chain[k + 1])
                  /\ \A j \in 1..(k - 1) : ~is_palindrome(chain[j + 1])

\* Seed 5 is itself a palindrome, and its chain 5, 10, 11 still runs two steps.
C1_Witness ==
    /\ "lychrel_chain" \in fn_called
    /\ fn_n = 5 /\ fn_max_iter = 2
    /\ fn_chain = <<<<PyInt(5), PyInt(10), PyInt(11)>>, TRUE>>

\* C8: seed 89 with bound 30 finds its first palindrome at step 24: lychrel_chain
\* returns found_pal with 25 values, palindrome_iterations returns 24, in unbounded
\* arithmetic (the palindrome is 8813200023188).
C8_EightyNine ==
    (fn_n = 89 /\ fn_max_iter = 30) =>
        /\ "lychrel_chain" \in fn_called =>
              /\ fn_chain[2] = TRUE
              /\ Len(fn_chain[1]) = 25
        /\ "palindrome_iterations" \in fn_called => fn_iters = 24

C8_Witness ==
    /\ fn_n = 89 /\ fn_max_iter = 30
    /\ fn_called = {"lychrel_chain", "palindrome_iterations", "primitives"}
    /\ fn_iters = 24
    /\ fn_chain[1][25] = py_int(<<8, 8, 1, 3, 2, 0, 0, 0, 2, 3, 1, 8, 8>>)

\* C9: for every n >= 0 each script's is_palindrome(n) says whether its reverse(n)
\* equals n, and the two scripts agree: reverse_int(n) = reverse_num(n) and the
\* arithmetic is_palindrome equals the string one.
C9_PrimitivesAgree ==
    "primitives" \in fn_called =>
        /\ fn_prims.rev_int = fn_prims.rev_num
        /\ fn_prims.pal_int = fn_prims.pal_str
        /\ fn_prims.pal_int = (fn_prims.rev_int = PyInt(fn_n))
        /\ fn_prims.pal_str = (fn_prims.rev_num = PyInt(fn_n))

\* reverse(120) = 21: the trailing zero of 120 is dropped, and 120 is no palindrome.
C9_Witness ==
    /\ "primitives" \in fn_called
    /\ fn_n = 120
    /\ fn_prims.rev_int = PyInt(21) /\ fn_prims.rev_num = PyInt(21)
    /\ ~fn_prims.pal_int /\ ~fn_prims.pal_str

\* ------------------------------------------------ the graph and the series
\* The chain of seed n under the arguments of the run, and its last value.
ChainOf(n) == lychrel_chain(PyInt(n), max_iter)[1]
FoundPal(n) == lychrel_chain(PyInt(n), max_iter)[2]
LastOf(n) == ChainOf(n)[Len(ChainOf(n))]

\* The seeds build_lychrel_graph has processed so far.
Processed == IF tree_pc = "idle" THEN {} ELSE start..(tree_n - 1)

\* The indices (from 0) at which x occurs in the chains processed so far.
Indices(x) ==
    UNION { { i \in 0..(Len(ChainOf(n)) - 1) : ChainOf(n)[i + 1] = x } : n \in Processed }

Range(s) == { s[i] : i \in 1..Len(s) }

\* a < b on values.
RECURSIVE int_less(_, _)
int_less(a, b) ==
    IF Len(a) # Len(b) THEN Len(a) < Len(b)
    ELSE IF a = <<>> THEN FALSE
    ELSE IF a[Len(a)] # b[Len(b)] THEN a[Len(a)] < b[Len(b)]
    ELSE int_less(SubSeq(a, 1, Len(a) - 1), SubSeq(b, 1, Len(b) - 1))

\* The reduction of two graphs: per-node union of the adjacency sets, per-node minimum
\* of the levels, union of the flagged seeds.
Merge(G, H) ==
    <<[u \in DOMAIN G[1] \cup DOMAIN H[1] |->
          (IF u \in DOMAIN G[1] THEN G[1][u] ELSE {}) \cup
          (IF u \in DOMAIN H[1] THEN H[1][u] ELSE {})],
      [x \in DOMAIN G[2] \cup DOMAIN H[2] |->
          IF x \notin DOMAIN H[2] THEN G[2][x]
          ELSE IF x \notin DOMAIN G[2] THEN H[2][x]
          ELSE Min2(G[2][x], H[2][x])],
      G[3] \cup H[3]>>

\* The sub-ranges of a set of seeds, as <<first, last>>.
SubRanges(todo) == { q \in todo \X todo : q[1] <= q[2] /\ (q[1]..q[2]) \subseteq todo }

\* One more sub-range merged, in every possible way, into each unfinished <<todo, acc>>
\* of F: todo are the seeds not yet covered, acc the graph merged so far, built[q] the
\* build of sub-range q.
MergeStep(F, built) ==
    { p \in F : p[1] = {} } \cup
    UNION { { <<p[1] \ (q[1]..q[2]), Merge(p[2], built[q])>> : q \in SubRanges(p[1]) } :
            p \in { r \in F : r[1] # {} } }

\* Every graph that merging the builds of disjoint sub-ranges covering the seeds into
\* the empty graph can give, the sub-ranges taken in any order.
RECURSIVE SplitResults(_, _)
SplitResults(F, built) ==
    IF \A p \in F : p[1] = {}
    THEN { p[2] : p \in F }
    ELSE SplitResults(MergeStep(F, built), built)

\* C2: for every range and bound, and every split of the range into disjoint
\* sub-ranges taken in any order, merging the sub-ranges' builds gives exactly the
\* graph that build_lychrel_graph returns for the whole range.
C2_SplitMergeEqualsWhole ==
    tree_pc = "returned" =>
        LET built == [q \in SubRanges(start..end) |->
                         build_lychrel_graph(q[1], q[2], max_iter)]
        IN  SplitResults({<<start..end, <<EmptyMap, EmptyMap, {}>>>>}, built)
                = {<<adjacency, level_of, lychrel_seeds>>}

\* Range 10..11: 11 is at index 1 of the chain of 10 and at index 0 of its own.
C2_Witness ==
    /\ tree_pc = "returned"
    /\ start = 10 /\ end = 11 /\ max_iter = 1
    /\ build_lychrel_graph(10, 10, 1)[2][PyInt(11)] = 1
    /\ build_lychrel_graph(11, 11, 1)[2][PyInt(11)] = 0
    /\ level_of[PyInt(11)] = 0

\* C3: after every seed processed, every edge u -> v has level_of[v] <= level_of[u] + 1,
\* level_of[x] being the least index of x over the chains processed so far.
C3_EdgeLevels ==
    /\ \A u \in DOMAIN adjacency : \A v \in adjacency[u] : level_of[v] <= level_of[u] + 1
    /\ \A x \in DOMAIN level_of :
          /\ level_of[x] \in Indices(x)
          /\ \A i \in Indices(x) : level_of[x] <= i

\* An edge whose target is shallower than source + 1: 10 -> 11 with both at level 0.
C3_Witness ==
    /\ tree_pc = "loop" /\ start = 10 /\ tree_n = 12
    /\ PyInt(10) \in DOMAIN adjacency
    /\ PyInt(11) \in adjacency[PyInt(10)]
    /\ level_of[PyInt(10)] = 0 /\ level_of[PyInt(11)] = 0

\* The value after k reverse-and-add steps from v.
RECURSIVE ValueAfter(_, _)
ValueAfter(v, k) ==
    IF k = 0 THEN v
    ELSE LET p == ValueAfter(v, k - 1) IN int_add(p, reverse_int(p))

\* C4: lychrel_graph_save puts seed n in no_palindrome_nums exactly when none of the
\* values after steps 1..max_iter is a palindrome, which is the set build_lychrel_graph
\* returns as lychrel_seeds.
C4_FlaggedIffNoPalindrome ==
    (series_pc = "done" /\ start <= end /\ max_iter >= 1) =>
        /\ \A n \in start..end :
              (n \in Range(no_palindrome_nums))
                  <=> (\A k \in 1..max_iter : ~is_palindrome_int(ValueAfter(PyInt(n), k)))
        /\ Range(no_palindrome_nums) = build_lychrel_graph(start, end, max_iter)[3]

\* C5: a call with start > end or bound <= 0 ends in an error and returns no result,
\* neither a graph nor a (seed, steps) sequence.
C5_InvalidArgumentsRejected ==
    (start > end \/ max_iter <= 0) => (tree_pc # "returned" /\ series_pc # "done")

TerminalPalindrome(node) == \E n \in start..end : FoundPal(n) /\ LastOf(n) = node
PalindromeSeed(node) == \E n \in start..end : PyInt(n) = node /\ is_palindrome(node)
ExhaustedEnd(node) == \E n \in start..end : ~FoundPal(n) /\ LastOf(n) = node

\* C6 as stated: in the returned graph every node of level_of with no outgoing edge is
\* the terminal palindrome of some chain or a seed that was already a palindrome.
C6_SinksArePalindromes ==
    (tree_pc = "returned" /\ start <= end /\ max_iter >= 1) =>
        \A node \in DOMAIN level_of \ DOMAIN adjacency :
            TerminalPalindrome(node) \/ PalindromeSeed(node)

\* C6 as amended: in the returned graph every node of level_of with no outgoing edge
\* is the terminal palindrome of some chain, a seed that was already a palindrome, or
\* the last value of a chain that exhausted the bound.
C6_SinksAreChainEnds ==
    (tree_pc = "returned" /\ start <= end /\ max_iter >= 1) =>
        \A node \in DOMAIN level_of \ DOMAIN adjacency :
            TerminalPalindrome(node) \/ PalindromeSeed(node) \/ ExhaustedEnd(node)

\* Seed 5 with bound 1: the chain 5, 10 is exhausted and 10, no palindrome, has no edge.
C6_Witness ==
    /\ tree_pc = "returned"
    /\ start = 5 /\ end = 5 /\ max_iter = 1
    /\ PyInt(10) \in DOMAIN level_of \ DOMAIN adjacency
    /\ ~is_palindrome(PyInt(10))
    /\ lychrel_seeds = {5}

\* C7: after build_lychrel_graph(s, e, bound) with 0 <= s <= e and bound >= 1 every
\* seed of the range is a key of level_of at level 0, also a seed that occurs deeper in
\* another seed's chain.
C7_SeedsAtLevelZero ==
    (tree_pc = "returned" /\ 0 <= start /\ start <= end /\ max_iter >= 1) =>
        \A n \in start..end : PyInt(n) \in DOMAIN level_of /\ level_of[PyInt(n)] = 0

\* Range 5..10 with bound 2: seed 10 is at index 1 of the chain 5, 10, 11.
C7_Witness ==
    /\ tree_pc = "returned"
    /\ start = 5 /\ end = 10 /\ max_iter = 2
    /\ ChainOf(5)[2] = PyInt(10)
    /\ level_of[PyInt(10)] = 0

\* C10: in every state of the build every key u of adjacency maps to exactly
\* {u + reverse(u)}, and for u >= 1 that successor is greater than u (so the only
\* cycle is 0 -> 0).
C10_SingleSuccessor ==
    \A u \in DOMAIN adjacency :
        LET succ == int_add(u, reverse_num(u))
        IN  /\ adjacency[u] = {succ}
            /\ u # PyInt(0) => int_less(u, succ)

\* Range 5..10 with bound 2: the chains of 5 and of 10 both add the edge 10 -> 11.
C10_Witness ==
    /\ start = 5 /\ max_iter = 2 /\ tree_n = 11
    /\ ChainOf(5) = <<PyInt(5), PyInt(10), PyInt(11)>>
    /\ ChainOf(10) = <<PyInt(10), PyInt(11)>>
    /\ adjacency[PyInt(10)] = {PyInt(11)}

====
